---- MODULE Spec2Model ----
(***************************************************************************)
(* The parallel chunked download engine of adb-explorer:                   *)
(* downloadManager.js (DownloadJob, the job registry) and the             *)
(* /api/download/* handlers of server.js.                                  *)
(*                                                                         *)
(* Node runs one callback at a time and drains the promise continuations   *)
(* it queues before the next callback, so each action below is one         *)
(* callback (an HTTP handler, an exec callback, a stream event) together   *)
(* with every continuation it triggers.                                    *)
(***************************************************************************)
EXTENDS Integers, Sequences, FiniteSets, TLC

\* ---------------------------------------------------------------- constants
CHUNK_SIZE == 50 * 1024 * 1024
MAX_CONCURRENCY == 4

\* ------------------------------------------------------------------- bounds
MaxChunks == 5      \* largest number of chunks of a job
MaxSubs == 1        \* progress subscriptions opened per job
MaxPlanChunk == 6   \* chunk sizes that SpecPlan tries
MaxPlanSize == 20   \* file sizes that SpecPlan tries

VARIABLES
    jobs,             \* every DownloadJob object created so far, in order
    activeDownloads,  \* the activeDownloads map: jobId -> position in jobs
    files,            \* the chunk temporary files on disk, by name
    dest,             \* the destination files on disk, by path
    plan              \* the planner's input and output (SpecPlan only)

vars == <<jobs, activeDownloads, files, dest, plan>>

\* ------------------------------------------------------------------ helpers
Min(a, b) == IF a < b THEN a ELSE b

\* Math.ceil(a / b) for b > 0
Ceil(a, b) == IF a % b = 0 THEN a \div b ELSE (a \div b) + 1

\* A path is the sequence of its components. Spec follows one job from its
\* creation on: one file on the device is asked for, and createDownloadJob
\* draws one id. SpecTwo has two jobs, for files of the same name in two
\* directories of the device.
RemotePaths == {<<"sdcard", "a", "x.bin">>}
RemotePathsTwo == RemotePaths \cup {<<"sdcard", "b", "x.bin">>}

\* The values of `dl_${Date.now()}_${Math.random().toString(36).substr(2, 9)}`:
\* the clock and the random number are inputs of createDownloadJob.
JobIds == {1}
JobIdsTwo == {1, 2}

\* path.posix.basename
basename(p) == p[Len(p)]

\* path.join(tempDir, path.posix.basename(filePath))
LocalPathOf(remotePath) == <<"downloads", basename(remotePath)>>

LocalPaths == {LocalPathOf(p) : p \in RemotePathsTwo}

\* parseInt of the stat output: an empty file, and for each n in 1..MaxChunks
\* a file of n chunks, whose last chunk is one byte (n odd) or a whole chunk.
FileSizes ==
    {0} \cup {(n - 1) * CHUNK_SIZE + (IF n % 2 = 0 THEN CHUNK_SIZE ELSE 1) :
                n \in 1..MaxChunks}

NoFile == <<>>
NoError == <<>>

ChunkFile(localPath, i) == <<localPath, i>>
TempNames == {ChunkFile(p, i) : p \in LocalPaths, i \in 0..(MaxChunks - 1)}

\* ------------------------------------------------------------ chunk planner
\* _initChunks with the clamp of the last chunk's end left out
InitChunksUnclamped(localPath, fileSize, chunkSize) ==
    LET numChunks == Ceil(fileSize, chunkSize)
    IN  [k \in 1..numChunks |->
            LET i == k - 1
                start == i * chunkSize
                end == start + chunkSize
            IN  [index |-> i, start |-> start, end |-> end, size |-> end - start,
                 status |-> "pending", localFile |-> ChunkFile(localPath, i)]]

_initChunks(localPath, fileSize, chunkSize) ==
    LET numChunks == Ceil(fileSize, chunkSize)
    IN  [k \in 1..numChunks |->
            LET i == k - 1
                start == i * chunkSize
                end == Min(start + chunkSize, fileSize)
            IN  [index |-> i, start |-> start, end |-> end, size |-> end - start,
                 status |-> "pending", localFile |-> ChunkFile(localPath, i)]]

\* ----------------------------------------------------------------- the job
\* speed is bytesDownloaded / elapsed, kept as the numerator it was computed
\* from: the clock is not part of the state. errorListeners counts the
\* listeners of 'error', which are never removed. streams are the responses
\* of GET /api/download/progress/:jobId in the order they were opened:
\* ended after res.end(), closed after the 'close' of the request (which
\* removes the 'progress' listener), last the status of the last snapshot
\* written to the client. completeEmitted lists the arguments of the
\* emit('complete') calls so far.
\* proc, chain, workers, queue, pc and cancelCalled are not fields of the
\* JavaScript object. proc is the state of the child process that exec started
\* for a chunk: "none" before, "running" until its callback has run ("unlinked"
\* when cancel() ran in between, so that a file the shell had opened by then
\* is gone), "done" after. execError records that some exec callback of the job
\* was handed an error. chain is the worker (numbered by its first chunk)
\* whose processNext recursion fetched the chunk, workers the promises handed
\* to Promise.all, queue the local queue of start(), pc the position of
\* start(), and cancelCalled records that cancel() ran.
DownloadJob(jobId, remotePath, localPath, fileSize) ==
    LET chunks == _initChunks(localPath, fileSize, CHUNK_SIZE)
    IN  [jobId |-> jobId, remotePath |-> remotePath, localPath |-> localPath,
         fileSize |-> fileSize, chunks |-> chunks,
         completedChunks |-> 0, bytesDownloaded |-> 0,
         status |-> "pending", error |-> NoError,
         speed |-> <<0>>,
         errorListeners |-> 0,
         streams |-> <<>>,
         completeEmitted |-> <<>>,
         queue |-> <<>>,
         proc |-> [k \in DOMAIN chunks |-> "none"],
         chain |-> [k \in DOMAIN chunks |-> -1],
         workers |-> <<>>,
         pc |-> "new",
         cancelCalled |-> FALSE,
         execError |-> FALSE]

\* ------------------------------------------------------------- getProgress
\* <<q, r>> is a quotient and remainder by d of some number x; the result is
\* the quotient and remainder of x * k
MulStep(qr, k, d) == <<qr[1] * k + ((qr[2] * k) \div d), (qr[2] * k) % d>>

\* Math.round(percent * 100) / 100 of getProgress, in hundredths of a
\* percent: the floor of bytesDownloaded * 20000 / fileSize, halved and
\* rounded up. 20000 is multiplied in by factors (5 * 5 * 5 * 5 * 4 * 4 * 2)
\* so that no intermediate value passes 5 * fileSize.
Percent(bytesDownloaded, fileSize) ==
    IF fileSize > 0
    THEN LET d == fileSize
             x0 == <<bytesDownloaded \div d, bytesDownloaded % d>>
             x4 == MulStep(MulStep(MulStep(MulStep(x0, 5, d), 5, d), 5, d), 5, d)
             x7 == MulStep(MulStep(MulStep(x4, 4, d), 4, d), 2, d)
         IN  (x7[1] + 1) \div 2
    ELSE 0

\* the snapshot, without eta and the formatted texts (derived from speed)
getProgress(job) ==
    [jobId |-> job.jobId,
     fileName |-> basename(job.remotePath),
     status |-> job.status,
     bytesDownloaded |-> job.bytesDownloaded,
     totalBytes |-> job.fileSize,
     percent |-> Percent(job.bytesDownloaded, job.fileSize),
     speed |-> job.speed,
     completedChunks |-> job.completedChunks,
     totalChunks |-> Len(job.chunks),
     error |-> job.error]

\* _updateSpeed, for a callback that runs after the millisecond of start()
_updateSpeed(job) == [job EXCEPT !.speed = <<job.bytesDownloaded>>]

\* ------------------------------------------------------------ the listeners
\* a response just opened: the initial sendProgress()
Stream(job) == [ended |-> FALSE, closed |-> FALSE, last |-> job.status]

\* sendProgress: res.write of the snapshot, which reaches the client while
\* the response has not ended and the connection is open
sendProgress(stream, job) ==
    IF stream.ended \/ stream.closed THEN stream
    ELSE [stream EXCEPT !.last = job.status]

\* emit('progress'): the sendProgress listeners that were not removed
EmitProgress(job) ==
    [job EXCEPT !.streams = [k \in DOMAIN @ |->
                                IF @[k].closed THEN @[k]
                                ELSE sendProgress(@[k], job)]]

\* the listener of 'complete' and the listener of 'error': sendProgress()
\* and res.end()
EndStreams(job) ==
    [job EXCEPT !.streams = [k \in DOMAIN @ |->
                                [sendProgress(@[k], job) EXCEPT !.ended = TRUE]]]

\* emit('complete', this.localPath)
EmitComplete(job) ==
    [EndStreams(job) EXCEPT !.completeEmitted = Append(@, job.localPath)]

\* emit('error', err) with a listener attached
EmitError(job) == EndStreams(job)

\* A world is what one callback reads and writes: the job it runs for and
\* the disk.
World(job, fs, ds) == [job |-> job, files |-> fs, dest |-> ds]

\* ------------------------------------------------------------- processNext
\* a guard that does not look for 'paused'
ProcessNextIgnoresPause(job) == Len(job.queue) = 0 \/ job.status = "error"

\* the guard at the head of processNext: TRUE when it returns at once
ProcessNextReturns(job) ==
    Len(job.queue) = 0 \/ job.status = "paused" \/ job.status = "error"

\* a dequeue that leaves the chunk in the queue: queue[0]
DequeuePeeks(job, w) ==
    LET i == Head(job.queue)
    IN  [job EXCEPT !.chunks[i + 1].status = "downloading",
                    !.proc[i + 1] = "running",
                    !.chain[i + 1] = w]

\* a dequeue from the end of the queue: queue.pop()
DequeueLast(job, w) ==
    LET i == job.queue[Len(job.queue)]
    IN  [job EXCEPT !.queue = SubSeq(@, 1, Len(@) - 1),
                    !.chunks[i + 1].status = "downloading",
                    !.proc[i + 1] = "running",
                    !.chain[i + 1] = w]

\* queue.shift(), chunk.status = 'downloading', and the exec of _downloadChunk
Dequeue(job, w) ==
    LET i == Head(job.queue)
    IN  [job EXCEPT !.queue = Tail(@),
                    !.chunks[i + 1].status = "downloading",
                    !.proc[i + 1] = "running",
                    !.chain[i + 1] = w]

\* one iteration of the loop that starts the workers: processNext() runs up
\* to its first await and its promise is pushed on activeWorkers
StartWorker(job, w) ==
    IF ProcessNextReturns(job)
    THEN [job EXCEPT !.workers = Append(@, "resolved")]
    ELSE [Dequeue(job, w) EXCEPT !.workers = Append(@, "pending")]

\* the worker start loop without its MAX_CONCURRENCY bound
StartsWorkerUnbounded(job, i) == i < Len(job.chunks)

\* the loop bound of the worker start loop
StartsWorker(job, i) == i < MAX_CONCURRENCY /\ i < Len(job.chunks)

RECURSIVE StartWorkers(_, _)
StartWorkers(job, i) ==
    IF StartsWorker(job, i) THEN StartWorkers(StartWorker(job, i), i + 1) ELSE job

\* ------------------------------------------------------------ _mergeChunks
\* the body of the loop over this.chunks, for the chunk at position k
MergeOne(w, k) ==
    LET name == w.job.chunks[k].localFile
        path == w.job.localPath
    IN  IF w.files[name] # NoFile
        THEN [w EXCEPT !.dest[path].data = Append(@, w.files[name]),
                       !.files[name] = NoFile]
        ELSE w

\* a merge that visits the chunks from the last to the first
MergeOrderDescending(job) == [k \in 1..Len(job.chunks) |-> Len(job.chunks) + 1 - k]

\* the order in which _mergeChunks visits the chunks
MergeOrder(job) == [k \in 1..Len(job.chunks) |-> k]

RECURSIVE MergeLoop(_, _)
MergeLoop(w, order) ==
    IF order = <<>> THEN w ELSE MergeLoop(MergeOne(w, Head(order)), Tail(order))

\* _mergeChunks up to its await of 'finish'
_mergeChunks(w) ==
    LET j1 == EmitProgress([w.job EXCEPT !.status = "merging"])
        w1 == [w EXCEPT !.job = j1,
                        !.dest[w.job.localPath] = [exists |-> TRUE, data |-> <<>>]]
    IN  MergeLoop(w1, MergeOrder(w1.job))

\* ------------------------------------------------------------------ start
\* the test that follows `await Promise.all(activeWorkers)`
\* the test with 'downloading' left to mean "still running"
MergesOnlyWhenMerging(job) == job.status # "error" /\ job.status # "paused" /\ job.status # "downloading"

MergesAfterWorkers(job) == job.status # "error" /\ job.status # "paused"

AfterWorkers(w) ==
    IF MergesAfterWorkers(w.job)
    THEN [_mergeChunks(w) EXCEPT !.job.pc = "merging"]
    ELSE [w EXCEPT !.job.pc = "settled"]

\* Promise.all: rejects with the first worker that rejects, resolves when
\* every worker has resolved
PromiseAll(w) ==
    LET ws == w.job.workers
    IN  IF w.job.pc # "workers" THEN w
        ELSE IF \E k \in DOMAIN ws : ws[k] = "rejected"
             THEN [w EXCEPT !.job.pc = "rejected"]
        ELSE IF \A k \in DOMAIN ws : ws[k] = "resolved"
             THEN AfterWorkers(w)
        ELSE w

\* start() up to the first callback it waits for
start(w) ==
    LET j0 == [w.job EXCEPT !.status = "downloading",
                            !.queue = [k \in 1..Len(w.job.chunks) |-> k - 1],
                            !.pc = "workers"]
    IN  PromiseAll([w EXCEPT !.job = StartWorkers(j0, 0)])

\* ------------------------------------------------- the callback of exec
\* a worker whose promise stays pending when its processNext has returned
WorkerStaysPending(w, wk, how) == w

WorkerSettles(w, wk, how) ==
    PromiseAll([w EXCEPT !.job.workers[wk + 1] = how])

\* a chunk counted with the configured chunk size instead of its own
CompleteChunkCountsChunkSize(job, i) ==
    [job EXCEPT !.chunks[i + 1].status = "completed",
                !.completedChunks = @ + 1,
                !.bytesDownloaded = @ + CHUNK_SIZE]

\* chunk.status = 'completed' and the two counters
CompleteChunk(job, i) ==
    [job EXCEPT !.chunks[i + 1].status = "completed",
                !.completedChunks = @ + 1,
                !.bytesDownloaded = @ + job.chunks[i + 1].size]

\* _downloadChunk resolved: the rest of the try block of processNext.
\* exit is the error argument of the exec callback, "ok" for none.
ChunkResolved(w, i, exit) ==
    LET wk == w.job.chain[i + 1]
        j1 == [EmitProgress(_updateSpeed(CompleteChunk(w.job, i)))
                  EXCEPT !.proc[i + 1] = "done",
                         !.execError = @ \/ exit # "ok"]
    IN  IF ProcessNextReturns(j1)
        THEN WorkerSettles([w EXCEPT !.job = j1], wk, "resolved")
        ELSE [w EXCEPT !.job = Dequeue(j1, wk)]

\* the chunks whose processNext frames are awaiting the frame of chunk i
OuterFrames(job, i) ==
    {k \in DOMAIN job.chunks :
        k # i + 1 /\ job.chain[k] = job.chain[i + 1] /\ job.proc[k] = "done"}

\* a catch block that does not record the message: this.error stays as it was
ChunkRejectedKeepsError(w, i) ==
    LET wk == w.job.chain[i + 1]
        j1 == [w.job EXCEPT !.chunks[i + 1].status = "error",
                            !.status = "error",
                            !.proc[i + 1] = "done",
                            !.execError = TRUE]
        outer == OuterFrames(w.job, i)
        j2 == [j1 EXCEPT !.chunks = [k \in DOMAIN j1.chunks |->
                            IF k \in outer
                            THEN [j1.chunks[k] EXCEPT !.status = "error"]
                            ELSE j1.chunks[k]]]
    IN  IF w.job.errorListeners > 0
        THEN WorkerSettles([w EXCEPT !.job = EmitError(j1)], wk, "resolved")
        ELSE WorkerSettles([w EXCEPT !.job = j2], wk, "rejected")

\* _downloadChunk rejected: the catch block of processNext. emit('error')
\* throws when no 'error' listener is attached, and the exception is then
\* caught by every outer frame of the recursion in turn.
ChunkRejected(w, i) ==
    LET wk == w.job.chain[i + 1]
        j1 == [w.job EXCEPT !.chunks[i + 1].status = "error",
                            !.error = <<i>>,
                            !.status = "error",
                            !.proc[i + 1] = "done",
                            !.execError = TRUE]
        outer == OuterFrames(w.job, i)
        j2 == [j1 EXCEPT !.chunks = [k \in DOMAIN j1.chunks |->
                            IF k \in outer
                            THEN [j1.chunks[k] EXCEPT !.status = "error"]
                            ELSE j1.chunks[k]]]
    IN  IF w.job.errorListeners > 0
        THEN WorkerSettles([w EXCEPT !.job = EmitError(j1)], wk, "resolved")
        ELSE WorkerSettles([w EXCEPT !.job = j2], wk, "rejected")

\* ------------------------------------------------------------------ cancel
\* a cancel() that leaves the chunk files on disk
CancelKeepsFiles(w) ==
    [w EXCEPT !.job.status = "cancelled",
              !.job.cancelCalled = TRUE]

\* a cancel() that also clears the counters of the job
CancelResetsCounters(w) ==
    [w EXCEPT !.job.status = "cancelled",
              !.job.cancelCalled = TRUE,
              !.job.completedChunks = 0,
              !.job.bytesDownloaded = 0,
              !.job.proc = [k \in DOMAIN @ |->
                               IF @[k] = "running" THEN "unlinked" ELSE @[k]],
              !.files = [n \in DOMAIN w.files |->
                            IF \E k \in DOMAIN w.job.chunks :
                                   w.job.chunks[k].localFile = n
                            THEN NoFile ELSE w.files[n]]]

cancel(w) ==
    [w EXCEPT !.job.status = "cancelled",
              !.job.cancelCalled = TRUE,
              !.job.proc = [k \in DOMAIN @ |->
                               IF @[k] = "running" THEN "unlinked" ELSE @[k]],
              !.files = [n \in DOMAIN w.files |->
                            IF \E k \in DOMAIN w.job.chunks :
                                   w.job.chunks[k].localFile = n
                            THEN NoFile ELSE w.files[n]]]

\* ------------------------------------------------------------ the registry
\* what the functions of the registry read and write
State ==
    [jobs |-> jobs, activeDownloads |-> activeDownloads,
     files |-> files, dest |-> dest]

\* activeDownloads.get of a key that is not in the map
undefined == 0

\* createDownloadJob for the jobId it has drawn: activeDownloads.set replaces
\* the entry of a key that is in the map
createDownloadJob(s, jobId, remotePath, localPath, fileSize) ==
    [s EXCEPT !.jobs = Append(@, DownloadJob(jobId, remotePath, localPath, fileSize)),
              !.activeDownloads = (jobId :> (Len(s.jobs) + 1)) @@ @]

getDownloadJob(s, jobId) ==
    IF jobId \in DOMAIN s.activeDownloads THEN s.activeDownloads[jobId] ELSE undefined

\* activeDownloads.values(): the objects the registry holds
Registered(s) == {s.activeDownloads[id] : id \in DOMAIN s.activeDownloads}

\* a listing of every job created, removed or not
AllJobsCreated(s) == {getProgress(s.jobs[o]) : o \in DOMAIN s.jobs}

\* the snapshots of getAllDownloads, without their order
getAllDownloads(s) == {getProgress(s.jobs[o]) : o \in Registered(s)}

\* the child processes of another job whose output file is unlinked while
\* they run
ShellFilesUnlinked(job, names) ==
    [job EXCEPT !.proc = [k \in DOMAIN @ |->
                            IF @[k] = "running" /\ job.chunks[k].localFile \in names
                            THEN "unlinked" ELSE @[k]]]

\* a removeDownloadJob that finds the job among all the jobs created, in
\* the registry or not
RemoveCancelsUnregistered(s, jobId) ==
    IF \E p \in DOMAIN s.jobs : s.jobs[p].jobId = jobId
    THEN LET o == CHOOSE p \in DOMAIN s.jobs : s.jobs[p].jobId = jobId
             w == cancel(World(s.jobs[o], s.files, s.dest))
         IN  [jobs |-> [s.jobs EXCEPT ![o] = w.job],
              activeDownloads |-> [id \in DOMAIN s.activeDownloads \ {jobId} |->
                                      s.activeDownloads[id]],
              files |-> w.files, dest |-> w.dest]
    ELSE s

removeDownloadJob(s, jobId) ==
    LET o == getDownloadJob(s, jobId)
    IN  IF o = undefined THEN s
        ELSE LET w == cancel(World(s.jobs[o], s.files, s.dest))
                 names == {w.job.chunks[k].localFile : k \in DOMAIN w.job.chunks}
             IN  [jobs |-> [p \in DOMAIN s.jobs |->
                              IF p = o THEN w.job
                              ELSE ShellFilesUnlinked(s.jobs[p], names)],
                  activeDownloads |-> [id \in DOMAIN s.activeDownloads \ {jobId} |->
                                          s.activeDownloads[id]],
                  files |-> w.files, dest |-> w.dest]

\* --------------------------------------------- GET /api/download/file/:jobId
\* a handler that serves the file of any registered job
ServesAnyRegistered(s, jobId) ==
    LET o == getDownloadJob(s, jobId)
    IN  IF o = undefined
        THEN [served |-> FALSE, file |-> <<>>, state |-> s]
        ELSE [served |-> TRUE, file |-> s.jobs[o].localPath, state |-> s]

\* the handler: served tells res.download from the 404 answer, file is the
\* path handed to res.download, state the state the handler leaves
ApiDownloadFile(s, jobId) ==
    LET o == getDownloadJob(s, jobId)
    IN  IF o = undefined \/ s.jobs[o].status # "completed"
        THEN [served |-> FALSE, file |-> <<>>, state |-> s]
        ELSE [served |-> TRUE, file |-> s.jobs[o].localPath, state |-> s]

\* ------------------------------------------------------- GET /api/downloads
\* the handler: body is the array of res.json, state the state the handler
\* leaves
ApiDownloadsList(s) == [body |-> getAllDownloads(s), state |-> s]

\* ------------------------------------------------------------------ states
NoPlan == [chunkSize |-> 0, fileSize |-> 0, done |-> FALSE, chunks |-> <<>>]

Init ==
    /\ jobs = <<>>
    /\ activeDownloads = <<>>
    /\ files = [n \in TempNames |-> NoFile]
    /\ dest = [p \in LocalPaths |-> [exists |-> FALSE, data |-> <<>>]]
    /\ plan = NoPlan

JobWorld(j) == World(jobs[j], files, dest)

\* counters kept in one place for all jobs
CommitSharedCounters(j, w) ==
    /\ jobs' = [p \in DOMAIN jobs |->
                  IF p = j THEN w.job
                  ELSE [jobs[p] EXCEPT !.completedChunks = w.job.completedChunks,
                                       !.bytesDownloaded = w.job.bytesDownloaded]]
    /\ files' = w.files
    /\ dest' = w.dest

\* the callback leaves the world w behind for job j
Commit(j, w) ==
    /\ jobs' = [jobs EXCEPT ![j] = w.job]
    /\ files' = w.files
    /\ dest' = w.dest

\* a handler leaves the state s behind
Install(s) ==
    /\ jobs' = s.jobs
    /\ activeDownloads' = s.activeDownloads
    /\ files' = s.files
    /\ dest' = s.dest

\* ----------------------------------------------------------------- actions
\* POST /api/download/start, from the answer of stat on: createDownloadJob
\* with the jobId it draws, and job.start()
ApiDownloadStart(jobId, remotePath, fileSize) ==
    /\ LET s == createDownloadJob(State, jobId, remotePath,
                                  LocalPathOf(remotePath), fileSize)
           o == Len(s.jobs)
           w == start(World(s.jobs[o], s.files, s.dest))
       IN  Install([s EXCEPT !.jobs[o] = w.job, !.files = w.files, !.dest = w.dest])
    /\ UNCHANGED plan

\* GET /api/download/progress/:jobId of a known job: the initial snapshot
\* and the three listeners
ApiProgress(jobId) ==
    LET j == getDownloadJob(State, jobId)
    IN  /\ j # undefined
        /\ jobs[j].errorListeners < MaxSubs
        /\ jobs' = [jobs EXCEPT ![j].errorListeners = @ + 1,
                                ![j].streams = Append(@, Stream(jobs[j]))]
        /\ UNCHANGED <<activeDownloads, files, dest, plan>>

\* 'close' of the request of stream k of job j: the client is gone and the
\* 'progress' listener is removed
ReqClose(j, k) ==
    /\ ~jobs[j].streams[k].closed
    /\ jobs' = [jobs EXCEPT ![j].streams[k].closed = TRUE]
    /\ UNCHANGED <<activeDownloads, files, dest, plan>>

\* GET /api/download/file/:jobId
ApiFile(jobId) ==
    /\ Install(ApiDownloadFile(State, jobId).state)
    /\ UNCHANGED plan

\* GET /api/downloads
ApiDownloads ==
    /\ Install(ApiDownloadsList(State).state)
    /\ UNCHANGED plan

\* What the exec callback of chunk i finds on disk. The shell creates the
\* file when it starts and dd fills it; until the callback nothing reads it,
\* and cancel() may unlink it. onDisk tells whether it is there now: it is
\* missing when the shell never got to create it, or created it before a
\* cancel() that ran while the child was running.
DiskAtCallback(j, i, onDisk, content) ==
    IF onDisk
    THEN [files EXCEPT ![jobs[j].chunks[i + 1].localFile] =
                            <<jobs[j].remotePath, i, content>>]
    ELSE files

\* the exec callback of chunk i without an error: dd wrote the whole range
ExecDone(j, i, onDisk) ==
    /\ jobs[j].proc[i + 1] \in {"running", "unlinked"}
    /\ ~onDisk => jobs[j].proc[i + 1] = "unlinked"
    /\ Commit(j, ChunkResolved(
                    World(jobs[j], DiskAtCallback(j, i, onDisk, "full"), dest),
                    i, "ok"))
    /\ UNCHANGED <<activeDownloads, plan>>

\* the exec callback of chunk i with an error: _downloadChunk rejects only
\* when the file does not exist
ExecFailed(j, i, onDisk) ==
    /\ jobs[j].proc[i + 1] \in {"running", "unlinked"}
    /\ LET fs == DiskAtCallback(j, i, onDisk, "partial")
           w == World(jobs[j], fs, dest)
       IN  IF fs[jobs[j].chunks[i + 1].localFile] = NoFile
           THEN Commit(j, ChunkRejected(w, i))
           ELSE Commit(j, ChunkResolved(w, i, "failed"))
    /\ UNCHANGED <<activeDownloads, plan>>

\* 'finish' of the write stream: the end of start()
MergeFinish(j) ==
    /\ jobs[j].pc = "merging"
    /\ jobs' = [jobs EXCEPT ![j] = [EmitComplete([@ EXCEPT !.status = "completed"])
                                       EXCEPT !.pc = "settled"]]
    /\ UNCHANGED <<activeDownloads, files, dest, plan>>

\* job.pause() on a job obtained from getDownloadJob
Pause(j) ==
    /\ j \in Registered(State)
    /\ jobs' = [jobs EXCEPT ![j].status = "paused"]
    /\ UNCHANGED <<activeDownloads, files, dest, plan>>

\* DELETE /api/download/:jobId
RemoveDownloadJob(jobId) ==
    /\ Install(removeDownloadJob(State, jobId))
    /\ UNCHANGED plan

\* One job (JobIds has one value) of up to MaxChunks chunks, whose
\* subscribers stay connected; DELETE is sent for registered ids.
Next ==
    \/ /\ Len(jobs) < Cardinality(JobIds)
       /\ \E id \in JobIds, p \in RemotePaths, s \in FileSizes :
              ApiDownloadStart(id, p, s)
    \/ \E id \in JobIds : ApiProgress(id)
    \/ \E id \in DOMAIN activeDownloads : RemoveDownloadJob(id)
    \/ \E j \in DOMAIN jobs : \E i \in 0..(Len(jobs[j].chunks) - 1) :
           \E onDisk \in BOOLEAN : ExecDone(j, i, onDisk)
    \/ \E j \in DOMAIN jobs : \E i \in 0..(Len(jobs[j].chunks) - 1) :
           \E onDisk \in BOOLEAN : ExecFailed(j, i, onDisk)
    \/ \E j \in DOMAIN jobs : MergeFinish(j)
    \/ \E j \in DOMAIN jobs : Pause(j)

Spec == Init /\ [][Next]_vars

\* ------------------------------------------------------------- two jobs
\* the files of one chunk
FileSizesTwo == {s \in FileSizes : 0 < s /\ s <= CHUNK_SIZE}

\* Two jobs of one chunk side by side, whose subscribers stay connected;
\* the second createDownloadJob may draw the id of the first. A child
\* process whose file another job's cancel() unlinks is marked by
\* removeDownloadJob; a file of a running child is not seen by another
\* job's merge.
NextTwo ==
    \/ /\ Len(jobs) < Cardinality(JobIdsTwo)
       /\ \E id \in JobIdsTwo, p \in RemotePathsTwo, s \in FileSizesTwo :
              ApiDownloadStart(id, p, s)
    \/ \E id \in JobIdsTwo : ApiProgress(id)
    \/ \E id \in JobIdsTwo : ApiFile(id)
    \/ \E id \in JobIdsTwo : RemoveDownloadJob(id)
    \/ \E j \in DOMAIN jobs : \E i \in 0..(Len(jobs[j].chunks) - 1) :
           \E onDisk \in BOOLEAN : ExecDone(j, i, onDisk)
    \/ \E j \in DOMAIN jobs : \E i \in 0..(Len(jobs[j].chunks) - 1) :
           \E onDisk \in BOOLEAN : ExecFailed(j, i, onDisk)
    \/ \E j \in DOMAIN jobs : MergeFinish(j)
    \/ \E j \in DOMAIN jobs : Pause(j)

SpecTwo == Init /\ [][NextTwo]_vars

\* ------------------------------------- two jobs of up to two chunks
FileSizesShare == {s \in FileSizes : 0 < s /\ s <= 2 * CHUNK_SIZE}

\* Two jobs of one or two chunks, for files of the same name, with no
\* subscriber and no pause(): the jobs fetch, fail, merge, are listed and
\* are removed side by side.
NextShare ==
    \/ /\ Len(jobs) < Cardinality(JobIdsTwo)
       /\ \E id \in JobIdsTwo, p \in RemotePathsTwo, s \in FileSizesShare :
              ApiDownloadStart(id, p, s)
    \/ \E id \in JobIdsTwo : RemoveDownloadJob(id)
    \/ ApiDownloads
    \/ \E j \in DOMAIN jobs : \E i \in 0..(Len(jobs[j].chunks) - 1) :
           \E onDisk \in BOOLEAN : ExecDone(j, i, onDisk)
    \/ \E j \in DOMAIN jobs : \E i \in 0..(Len(jobs[j].chunks) - 1) :
           \E onDisk \in BOOLEAN : ExecFailed(j, i, onDisk)
    \/ \E j \in DOMAIN jobs : MergeFinish(j)

SpecShare == Init /\ [][NextShare]_vars

\* ------------------------------------------- a job that is left to finish
\* every exec callback comes without an error and finds its file
FetchReturns == \E j \in DOMAIN jobs : \E i \in 0..(Len(jobs[j].chunks) - 1) :
                    ExecDone(j, i, TRUE)

\* the write stream of the merge finishes
WriteFinishes == \E j \in DOMAIN jobs : MergeFinish(j)

\* an exec callback is outstanding: FetchReturns is enabled
FetchDue ==
    \E j \in DOMAIN jobs : \E k \in DOMAIN jobs[j].proc :
        jobs[j].proc[k] \in {"running", "unlinked"}

\* WF_vars(FetchReturns), with ENABLED <<FetchReturns>>_vars written out
FetchFairness == []<>(~FetchDue) \/ []<><<FetchReturns>>_vars

\* One job whose fetches all succeed and that nobody pauses or cancels.
\* Node runs a callback that is due: the exec callbacks and the 'finish'
\* of the write stream are weakly fair.
NextLive ==
    \/ /\ Len(jobs) < Cardinality(JobIds)
       /\ \E id \in JobIds, p \in RemotePaths, s \in FileSizes :
              ApiDownloadStart(id, p, s)
    \/ \E id \in JobIds : ApiProgress(id)
    \/ \E j \in DOMAIN jobs : \E k \in DOMAIN jobs[j].streams : ReqClose(j, k)
    \/ FetchReturns
    \/ WriteFinishes

SpecLive == Init /\ [][NextLive]_vars /\ FetchFairness /\ WF_vars(WriteFinishes)

\* ------------------------------------------------- the pool of workers
\* an exec callback comes: without an error (its file is on disk, or was
\* unlinked by a cancel() while the child ran), or with an error and no
\* file, which rejects _downloadChunk. (An error with the file on disk
\* resolves _downloadChunk as no error does.)
FetchSettles ==
    \E j \in DOMAIN jobs : \E i \in 0..(Len(jobs[j].chunks) - 1) :
        \/ \E onDisk \in BOOLEAN : ExecDone(j, i, onDisk)
        \/ ExecFailed(j, i, FALSE)

\* WF_vars(FetchSettles), with ENABLED <<FetchSettles>>_vars written out:
\* every fetch in flight returns
SettleFairness == []<>(~FetchDue) \/ []<><<FetchSettles>>_vars

\* One job whose fetches succeed or fail, with subscribers, pause() and
\* removeDownloadJob at any point. The exec callbacks and the 'finish' of
\* the write stream are weakly fair.
NextPool ==
    \/ /\ Len(jobs) < Cardinality(JobIds)
       /\ \E id \in JobIds, p \in RemotePaths, s \in FileSizes :
              ApiDownloadStart(id, p, s)
    \/ \E id \in JobIds : ApiProgress(id)
    \/ \E id \in DOMAIN activeDownloads : RemoveDownloadJob(id)
    \/ \E j \in DOMAIN jobs : Pause(j)
    \/ FetchSettles
    \/ WriteFinishes

SpecPool == Init /\ [][NextPool]_vars /\ SettleFairness /\ WF_vars(WriteFinishes)

\* ------------------------------------------------ the planner on its own
\* _initChunks for every file size in 1..MaxPlanSize and every chunk size in
\* 1..MaxPlanChunk
InitPlan ==
    /\ jobs = <<>>
    /\ activeDownloads = <<>>
    /\ files = [n \in TempNames |-> NoFile]
    /\ dest = [p \in LocalPaths |-> [exists |-> FALSE, data |-> <<>>]]
    /\ \E c \in 1..MaxPlanChunk, s \in 1..MaxPlanSize :
           plan = [chunkSize |-> c, fileSize |-> s, done |-> FALSE, chunks |-> <<>>]

PlanChunks ==
    /\ ~plan.done
    /\ plan' = [plan EXCEPT !.done = TRUE,
                            !.chunks = _initChunks(<<"downloads", "x.bin">>,
                                                   plan.fileSize, plan.chunkSize)]
    /\ UNCHANGED <<jobs, activeDownloads, files, dest>>

NextPlan == PlanChunks

SpecPlan == InitPlan /\ [][NextPlan]_vars

\* ================================================================== claims
Terminal == {"completed", "error", "cancelled"}

\* some chunk fetch of the job has failed: processNext's catch block ran
Failed(job) == \E k \in DOMAIN job.chunks : job.chunks[k].status = "error"

\* the chunks whose exec callback has not run yet
InFlight(job) == {k \in DOMAIN job.chunks : job.proc[k] \in {"running", "unlinked"}}

\* the destination a job of n chunks should end with
WholeFile(job) == [k \in 1..Len(job.chunks) |-> <<job.remotePath, k - 1, "full">>]

\* C1: once a job's status is completed, error or cancelled, no step changes
\* it again.
TerminalStatesAbsorbing ==
    [][\A j \in DOMAIN jobs :
          jobs[j].status \in Terminal => jobs'[j].status = jobs[j].status]_vars

\* C2: after cancel() (removeDownloadJob), a chunk that is still pending is
\* never dequeued and moved to downloading.
CancelStopsDispatch ==
    [][\A j \in DOMAIN jobs : \A k \in DOMAIN jobs[j].chunks :
          (jobs[j].cancelCalled /\ jobs[j].chunks[k].status = "pending")
              => jobs'[j].chunks[k].status = "pending"]_vars

\* C3: when a job's status becomes merging, every chunk is completed and the
\* status just before was downloading.
MergeOnlyFromCleanDownload ==
    [][\A j \in DOMAIN jobs :
          (jobs[j].status # "merging" /\ jobs'[j].status = "merging")
              => /\ jobs[j].status = "downloading"
                 /\ \A k \in DOMAIN jobs'[j].chunks :
                        jobs'[j].chunks[k].status = "completed"]_vars

\* C4: a completed job all of whose chunk fetches succeeded has a destination
\* file made of every chunk's whole range once, in index order.
CompletedFileIsWhole ==
    \A j \in DOMAIN jobs :
        (/\ jobs[j].status = "completed"
         /\ ~jobs[j].execError
         /\ \A k \in DOMAIN jobs[j].chunks : jobs[j].chunks[k].status = "completed")
            => dest[jobs[j].localPath].data = WholeFile(jobs[j])

\* C5: the chunks appended to a destination are in strictly ascending index
\* order, and a temporary file that _mergeChunks deletes has been appended.
AscendingDest ==
    \A p \in DOMAIN dest : \A a, b \in DOMAIN dest[p].data :
        a < b => dest[p].data[a][2] < dest[p].data[b][2]

DeletedOnlyAfterAppend ==
    \A j \in DOMAIN jobs :
        (jobs[j].status # "merging" /\ jobs'[j].status = "merging")
            => \A k \in DOMAIN jobs[j].chunks :
                   LET name == jobs[j].chunks[k].localFile
                   IN  (files[name] # NoFile /\ files'[name] = NoFile)
                          => \E a \in DOMAIN dest'[jobs[j].localPath].data :
                                 dest'[jobs[j].localPath].data[a] = files[name]

MergeInIndexOrder == []AscendingDest /\ [][DeletedOnlyAfterAppend]_vars

\* C5 witness: a merge of five chunks where chunk 3 was the first to finish
\* (its worker went on to fetch chunk 4) and every file was appended.
MergeAfterOutOfOrderCompletion ==
    \E j \in DOMAIN jobs :
        /\ jobs[j].status = "merging"
        /\ Len(jobs[j].chunks) = 5
        /\ jobs[j].chain[5] = 3
        /\ Len(dest[jobs[j].localPath].data) = 5

\* C6: at most MAX_CONCURRENCY chunk fetches of a job are in flight.
BoundedConcurrency ==
    \A j \in DOMAIN jobs : Cardinality(InFlight(jobs[j])) <= MAX_CONCURRENCY

\* C6 witness: MAX_CONCURRENCY fetches are in flight after a cancel, one of
\* them for a chunk that a returning worker dequeued.
FullPoolAfterCancel ==
    \E j \in DOMAIN jobs :
        /\ Cardinality(InFlight(jobs[j])) = MAX_CONCURRENCY
        /\ jobs[j].cancelCalled
        /\ \E k \in DOMAIN jobs[j].chunks : jobs[j].proc[k] = "done"

\* C7: the planner's chunks partition [0, fileSize): ceil(fileSize / C)
\* chunks, indices 0..n-1, contiguous from 0 to fileSize, size = end - start,
\* all of size C but the last, which has fileSize mod C bytes (C when that is
\* 0); the sizes sum to fileSize.
RECURSIVE SumSizes(_)
SumSizes(chunks) ==
    IF chunks = <<>> THEN 0 ELSE Head(chunks).size + SumSizes(Tail(chunks))

PlanIsExactPartition ==
    plan.done =>
        LET ch == plan.chunks
            n == Len(ch)
            C == plan.chunkSize
            S == plan.fileSize
        IN  /\ (n - 1) * C < S /\ S <= n * C
            /\ \A k \in 1..n : ch[k].index = k - 1
            /\ ch[1].start = 0
            /\ \A k \in 1..(n - 1) : ch[k + 1].start = ch[k].end
            /\ ch[n].end = S
            /\ \A k \in 1..n : ch[k].size = ch[k].end - ch[k].start
            /\ \A k \in 1..(n - 1) : ch[k].size = C
            /\ ch[n].size = (IF S % C = 0 THEN C ELSE S % C)
            /\ SumSizes(ch) = S

\* C7 witness: a plan of several chunks whose last chunk is short.
PlanWithShortLastChunk ==
    /\ plan.done
    /\ Len(plan.chunks) >= 3
    /\ plan.fileSize % plan.chunkSize # 0

\* C8: no job is created, registered or started for a size <= 0, so every job
\* has a positive size and at least one chunk.
NonPositiveSizeRejected ==
    \A j \in DOMAIN jobs : jobs[j].fileSize > 0 /\ Len(jobs[j].chunks) > 0

\* C9: a job one of whose chunk fetches has failed is never merging or
\* completed afterwards, and its destination file is never written.
FailedChunkMeansNoMerge ==
    [][\A j \in DOMAIN jobs :
          Failed(jobs[j])
              => /\ jobs'[j].status \notin {"merging", "completed"}
                 /\ dest'[jobs[j].localPath] = dest[jobs[j].localPath]]_vars

\* C10: after a chunk fetch of a job has failed, a chunk that is still
\* pending is never dequeued.
FailureStopsDispatch ==
    [][\A j \in DOMAIN jobs : \A k \in DOMAIN jobs[j].chunks :
          (Failed(jobs[j]) /\ jobs[j].chunks[k].status = "pending")
              => jobs'[j].chunks[k].status = "pending"]_vars

\* the names of the chunk temporary files of a job
ChunkFiles(job) == {job.chunks[k].localFile : k \in DOMAIN job.chunks}

\* the step takes the key of job o out of the registry: removeDownloadJob
\* of a registered job
Removes(o) ==
    \E id \in DOMAIN activeDownloads :
        activeDownloads[id] = o /\ id \notin DOMAIN activeDownloads'

\* C11: when removeDownloadJob of a registered job returns, none of the
\* job's chunk temporary files exists; and a job that has left the registry
\* is in no later getAllDownloads() and is returned by no getDownloadJob.
RemovedJobIsGone ==
    [][\A o \in DOMAIN jobs :
          /\ Removes(o) => \A n \in ChunkFiles(jobs[o]) : files'[n] = NoFile
          /\ (Removes(o) \/ o \notin Registered(State))
                => /\ o \notin Registered(State)'
                   /\ \A id \in JobIdsTwo : getDownloadJob(State, id)' # o]_vars

\* C11 witness: the only job created was removed after its chunk had been
\* fetched and left on disk by a paused job, and is in no listing.
RemovedWithFilesOnDisk ==
    /\ Len(jobs) = 1
    /\ jobs[1].cancelCalled
    /\ jobs[1].status = "cancelled"
    /\ jobs[1].pc = "settled"
    /\ jobs[1].completedChunks = 1
    /\ ~dest[jobs[1].localPath].exists
    /\ getAllDownloads(State) = {}
    /\ \A n \in ChunkFiles(jobs[1]) : files[n] = NoFile

\* C12: in every reachable state, a job whose completedChunks equals its
\* number of chunks has bytesDownloaded equal to its fileSize (so it has in
\* the state before its status becomes merging).
AllChunksMeansAllBytes ==
    \A j \in DOMAIN jobs :
        jobs[j].completedChunks = Len(jobs[j].chunks)
            => jobs[j].bytesDownloaded = jobs[j].fileSize

\* C12 witness: the five chunks of a file whose last chunk is one byte are
\* all counted, one of them after its exec reported an error.
AllOfFiveChunksCounted ==
    \E j \in DOMAIN jobs :
        /\ Len(jobs[j].chunks) = 5
        /\ jobs[j].completedChunks = 5
        /\ jobs[j].fileSize % CHUNK_SIZE = 1
        /\ jobs[j].execError
        /\ jobs[j].status = "merging"

\* C13: no step lowers a job's bytesDownloaded, its completedChunks or the
\* percent of its snapshot (which is a function of bytesDownloaded and
\* fileSize, so it is compared on the steps that change one of them).
ProgressNeverGoesBack ==
    [][\A j \in DOMAIN jobs :
          /\ jobs'[j].bytesDownloaded >= jobs[j].bytesDownloaded
          /\ jobs'[j].completedChunks >= jobs[j].completedChunks
          /\ \/ /\ jobs'[j].bytesDownloaded = jobs[j].bytesDownloaded
                /\ jobs'[j].fileSize = jobs[j].fileSize
             \/ getProgress(jobs'[j]).percent >= getProgress(jobs[j]).percent]_vars

\* C13 witness: a job of five chunks that was cancelled with three chunks
\* counted shows 75.00 percent (three chunks of a file of four chunks and
\* one byte, rounded), and its fourth chunk is still being fetched.
PartWayAfterCancel ==
    \E j \in DOMAIN jobs :
        /\ Len(jobs[j].chunks) = 5
        /\ jobs[j].cancelCalled
        /\ jobs[j].completedChunks = 3
        /\ getProgress(jobs[j]).percent = 7500
        /\ InFlight(jobs[j]) # {}

\* no callback of the job is due any more: start() has ended and no exec
\* callback is outstanding
Quiescent(job) == job.pc \in {"settled", "rejected"} /\ InFlight(job) = {}

\* C14: every progress stream ends: once the job is completed or error (and
\* nothing of the job is left to run), every stream of a connected client
\* has been sent a snapshot with that status and has been ended.
EveryStreamEnds ==
    \A j \in DOMAIN jobs : \A k \in DOMAIN jobs[j].streams :
        (/\ Quiescent(jobs[j])
         /\ jobs[j].status \in {"completed", "error"}
         /\ ~jobs[j].streams[k].closed)
            => /\ jobs[j].streams[k].ended
               /\ jobs[j].streams[k].last = jobs[j].status

\* C15: GET /api/download/file/:jobId hands out the destination file of the
\* job exactly when the id is in the registry and the job's status is
\* completed, and the handler leaves the state as it found it.
FileServedOnlyWhenCompleted ==
    \A id \in JobIdsTwo :
        LET r == ApiDownloadFile(State, id)
            known == id \in DOMAIN activeDownloads
        IN  /\ r.served <=> (known /\ jobs[activeDownloads[id]].status = "completed")
            /\ r.served => r.file = jobs[activeDownloads[id]].localPath
            /\ r.state = State

\* C15 witness: of two registered jobs the file of the completed one is
\* served and the file of the other, which is merging, is not.
ServedAndRefused ==
    \E a, b \in JobIdsTwo :
        /\ ApiDownloadFile(State, a).served
        /\ b \in DOMAIN activeDownloads
        /\ jobs[activeDownloads[b]].status = "merging"
        /\ ~ApiDownloadFile(State, b).served

\* what C16 speaks of: the fields of a job and what its subscribers were sent
Observed(job) ==
    [status |-> job.status,
     chunks |-> [k \in DOMAIN job.chunks |-> job.chunks[k].status],
     completedChunks |-> job.completedChunks,
     bytesDownloaded |-> job.bytesDownloaded,
     speed |-> job.speed,
     error |-> job.error,
     streams |-> job.streams]

\* C16: a step that creates a job, or changes the status, a chunk status, a
\* counter, the speed, the error or a stream of one job, leaves all of these
\* unchanged for every other job.
JobsDoNotCrossUpdate ==
    [][\A b \in DOMAIN jobs :
          (\/ Len(jobs') > Len(jobs)
           \/ \E a \in DOMAIN jobs \ {b} : Observed(jobs'[a]) # Observed(jobs[a]))
              => Observed(jobs'[b]) = Observed(jobs[b])]_vars

\* C16 witness: two registered jobs, each with a subscriber, have both had
\* their chunk fetched; one is completed and the other paused.
TwoJobsSideBySide ==
    /\ Len(jobs) = 2
    /\ Registered(State) = {1, 2}
    /\ \A j \in {1, 2} : jobs[j].completedChunks = 1 /\ Len(jobs[j].streams) = 1
    /\ jobs[1].status = "completed"
    /\ jobs[2].status = "paused"
    /\ jobs[2].streams[1].last = "paused"
    /\ jobs[1].streams[1].ended

\* C17: two jobs (of different ids) started for different remote paths
\* share no destination path and no chunk temporary file.
DisjointOnDisk ==
    \A a, b \in DOMAIN jobs :
        (jobs[a].remotePath # jobs[b].remotePath /\ jobs[a].jobId # jobs[b].jobId)
            => /\ jobs[a].localPath # jobs[b].localPath
               /\ ChunkFiles(jobs[a]) \cap ChunkFiles(jobs[b]) = {}

\* C18: removeDownloadJob with an id that is not in the registry changes
\* nothing, and removing the same id twice leaves the state that removing
\* it once leaves.
RemoveIsIdempotent ==
    \A id \in JobIdsTwo :
        LET once == removeDownloadJob(State, id)
        IN  /\ id \notin DOMAIN activeDownloads => once = State
            /\ removeDownloadJob(once, id) = once

\* C18 witness: the job that was created with an id and removed is
\* completed by now and has its destination file, the id is in the registry
\* no more, and the other job is registered, paused, with its chunk file on
\* disk.
RemovedJobWentOn ==
    /\ Len(jobs) = 2
    /\ jobs[1].cancelCalled
    /\ jobs[1].status = "completed"
    /\ jobs[1].jobId \notin DOMAIN activeDownloads
    /\ 2 \in Registered(State)
    /\ jobs[2].status = "paused"
    /\ \E n \in ChunkFiles(jobs[2]) : files[n] # NoFile

\* C19: the jobs created so far all have different jobIds, so no
\* createDownloadJob has replaced a registry entry.
JobIdsNeverReused ==
    \A a, b \in DOMAIN jobs : a # b => jobs[a].jobId # jobs[b].jobId

\* C20: in SpecLive, where every fetch returns successfully, the merge write
\* finishes and nobody pauses or cancels, a job that was started eventually
\* has status completed and has emitted 'complete' once, with its
\* destination path.
StartedJobCompletes ==
    (Len(jobs) = 1)
        ~> (/\ Len(jobs) = 1
            /\ jobs[1].status = "completed"
            /\ jobs[1].completeEmitted = <<jobs[1].localPath>>)

\* C20 witness: a job of five chunks, more than there are workers, is
\* completed, has emitted 'complete', and its destination holds the file.
FiveChunkJobCompleted ==
    /\ Len(jobs) = 1
    /\ Len(jobs[1].chunks) = 5
    /\ jobs[1].status = "completed"
    /\ jobs[1].completeEmitted = <<jobs[1].localPath>>
    /\ dest[jobs[1].localPath].data = WholeFile(jobs[1])
    /\ jobs[1].streams # <<>>

\* the status changes that the state machine of a job lists
ListedTransition(from, to) ==
    \/ <<from, to>> \in {<<"pending", "downloading">>,
                         <<"downloading", "merging">>,
                         <<"merging", "completed">>,
                         <<"downloading", "error">>,
                         <<"downloading", "paused">>}
    \/ to = "cancelled" /\ from \notin Terminal

\* C21: every step that changes the status of a job changes it by one of the
\* listed transitions: downloading to merging, merging to completed,
\* downloading to error, downloading to paused, or a status that is not
\* terminal to cancelled.
OnlyListedTransitions ==
    [][\A j \in DOMAIN jobs :
          jobs'[j].status # jobs[j].status
              => ListedTransition(jobs[j].status, jobs'[j].status)]_vars

CompletedSet(job) == {k \in DOMAIN job.chunks : job.chunks[k].status = "completed"}

RECURSIVE SumOfSizes(_, _)
SumOfSizes(job, ks) ==
    IF ks = {} THEN 0
    ELSE LET k == CHOOSE x \in ks : TRUE
         IN  job.chunks[k].size + SumOfSizes(job, ks \ {k})

\* C23: in every reachable state of a job, bytesDownloaded is the sum of the
\* sizes of the chunks whose status is completed, and completedChunks is the
\* number of those chunks.
CountersMatchChunks ==
    \A j \in DOMAIN jobs :
        /\ jobs[j].completedChunks = Cardinality(CompletedSet(jobs[j]))
        /\ jobs[j].bytesDownloaded = SumOfSizes(jobs[j], CompletedSet(jobs[j]))

\* the streams of a job whose client is connected and which were not ended
Live(job) == {k \in DOMAIN job.streams :
                ~job.streams[k].ended /\ ~job.streams[k].closed}

\* C24: on every step that changes the status of a job or completes one of
\* its chunks, each live subscriber of the job is sent a snapshot, which
\* carries the new status.
SnapshotAtEveryTransition ==
    [][\A j \in DOMAIN jobs :
          (\/ jobs'[j].status # jobs[j].status
           \/ jobs'[j].completedChunks # jobs[j].completedChunks)
              => \A k \in Live(jobs[j]) :
                     jobs'[j].streams[k].last = jobs'[j].status]_vars

\* the job with no listener attached
Detached(job) == [job EXCEPT !.errorListeners = 0, !.streams = <<>>]

\* what C25 speaks of: the fields of the job and whether the merge runs
Core(w) ==
    [status |-> w.job.status,
     chunks |-> [k \in DOMAIN w.job.chunks |-> w.job.chunks[k].status],
     completedChunks |-> w.job.completedChunks,
     bytesDownloaded |-> w.job.bytesDownloaded,
     error |-> w.job.error,
     merges |-> w.job.pc = "merging",
     dest |-> w.dest]

\* C25: from the same state of a job, the same fetch outcome leads to the
\* same state of the job (status, chunk statuses, counters, error, whether
\* the merge runs) with listeners attached and with none.
SubscribersDoNotAffectJob ==
    \A j \in DOMAIN jobs : \A k \in InFlight(jobs[j]) :
        LET with == World(jobs[j], files, dest)
            without == World(Detached(jobs[j]), files, dest)
        IN  /\ Core(ChunkResolved(with, k - 1, "ok"))
                  = Core(ChunkResolved(without, k - 1, "ok"))
            /\ Core(ChunkRejected(with, k - 1))
                  = Core(ChunkRejected(without, k - 1))

\* C26: in every reachable state and for every chunk of a job, a completed
\* chunk has its temporary file and a pending or error chunk has none (the
\* file of a chunk that is being fetched exists once the shell has made it).
TempFileIffStatus ==
    \A j \in DOMAIN jobs : \A k \in DOMAIN jobs[j].chunks :
        LET there == files[jobs[j].chunks[k].localFile] # NoFile
            status == jobs[j].chunks[k].status
        IN  /\ status = "completed" => there
            /\ status \in {"pending", "error"} => ~there

\* C27: the step that takes a job to error deletes none of its temporary
\* files, and while the job stays in error the temporary file of each of its
\* completed chunks stays on disk.
ErrorCleansNothing ==
    [][\A j \in DOMAIN jobs :
          jobs'[j].status = "error"
              => /\ jobs[j].status # "error"
                       => \A n \in ChunkFiles(jobs[j]) : files'[n] = files[n]
                 /\ \A k \in DOMAIN jobs[j].chunks :
                        LET name == jobs[j].chunks[k].localFile
                        IN  (jobs[j].chunks[k].status = "completed"
                                 /\ files[name] # NoFile)
                               => files'[name] # NoFile]_vars

\* C28: a job's status becomes completed only in the callback of 'finish' of
\* the destination write stream, after _mergeChunks has written the
\* destination; and whenever a job's status is completed, none of its chunk
\* temporary files exists.
NoChunkFileWhenCompleted ==
    \A j \in DOMAIN jobs :
        jobs[j].status = "completed"
            => \A n \in ChunkFiles(jobs[j]) : files[n] = NoFile

CompletedAtFinish ==
    \A j \in DOMAIN jobs :
        (jobs[j].status # "completed" /\ jobs'[j].status = "completed")
            => /\ jobs[j].pc = "merging"
               /\ jobs'[j].pc = "settled"
               /\ dest[jobs[j].localPath].exists

FifoDispatch ==
    \A j \in DOMAIN jobs :
        LET n == Len(jobs[j].chunks)
            q == jobs[j].queue
        IN  /\ \A k \in 1..n :
                   jobs[j].chunks[k].status # "pending"
                       => \A m \in 1..(k - 1) : jobs[j].chunks[m].status # "pending"
            /\ q = [x \in 1..Len(q) |-> n - Len(q) + x - 1]
            /\ \A k \in 1..n :
                   jobs[j].chunks[k].status = "pending" <=> k > n - Len(q)

\* C29 witness: of five chunks the third was the first to be fetched, and
\* its worker has dequeued the fifth while the others are still being
\* fetched.
FifthChunkFollowsFirstFour ==
    \E j \in DOMAIN jobs :
        /\ Len(jobs[j].chunks) = 5
        /\ jobs[j].chunks[3].status = "completed"
        /\ jobs[j].chain[5] = 2
        /\ \A k \in {1, 2, 4, 5} : jobs[j].chunks[k].status = "downloading"
        /\ jobs[j].queue = <<>>

\* every worker of the job has exited and start() has settled (resolved or
\* rejected), with no fetch left in flight
PoolDone(job) ==
    /\ \A k \in DOMAIN job.workers : job.workers[k] # "pending"
    /\ InFlight(job) = {}
    /\ job.pc \in {"settled", "rejected"}

\* C30: in SpecPool, where every fetch in flight returns (with success or
\* failure) and the merge write finishes, whatever pause() and cancel() do,
\* a job that was started eventually has all its workers exited and its
\* start() settled.
PoolTerminates == (Len(jobs) = 1) ~> (Len(jobs) = 1 /\ PoolDone(jobs[1]))

\* C30 witness: the pool of a job of five chunks has drained after a fetch
\* failed with no listener attached: start() rejected, the other workers
\* exited when their fetches returned, and the fifth chunk stayed in the
\* queue.
PoolDrainedAfterFailure ==
    /\ Len(jobs) = 1
    /\ Len(jobs[1].chunks) = 5
    /\ PoolDone(jobs[1])
    /\ jobs[1].pc = "rejected"
    /\ jobs[1].status = "error"
    /\ jobs[1].completedChunks = 3
    /\ jobs[1].chunks[5].status = "pending"

\* C31: whenever a job's status is error, its error is the message of a chunk
\* of the job whose status is error; a job none of whose chunks is in error
\* has no error; and the error changes only in the step in which a fetch in
\* flight fails, to the message of that chunk.
ErrorNamesFailedChunk ==
    \A j \in DOMAIN jobs :
        /\ jobs[j].status = "error"
              => /\ jobs[j].error # NoError
                 /\ jobs[j].error[1] + 1 \in DOMAIN jobs[j].chunks
                 /\ jobs[j].chunks[jobs[j].error[1] + 1].status = "error"
        /\ ~Failed(jobs[j]) => jobs[j].error = NoError

ErrorSetByFailingFetch ==
    \A j \in DOMAIN jobs :
        jobs'[j].error # jobs[j].error
            => \E k \in InFlight(jobs[j]) :
                   /\ jobs'[j].error = <<k - 1>>
                   /\ k \notin InFlight(jobs'[j])
                   /\ jobs'[j].chunks[k].status = "error"
                   /\ jobs'[j].status = "error"

ErrorBookkeeping == []ErrorNamesFailedChunk /\ [][ErrorSetByFailingFetch]_vars

\* C31 witness: with no listener attached the fetch of the fifth chunk
\* failed after the first had succeeded on the same worker: the job is in
\* error, its error names the fifth chunk, and the first chunk, though
\* counted, is in error too.
ErrorNamesFifthChunk ==
    \E j \in DOMAIN jobs :
        /\ Len(jobs[j].chunks) = 5
        /\ jobs[j].status = "error"
        /\ jobs[j].error = <<4>>
        /\ jobs[j].chain[5] = 0
        /\ jobs[j].chunks[1].status = "error"
        /\ jobs[j].completedChunks >= 1

\* C32: GET /api/downloads leaves every job, the registry and the disk as it
\* found them, and its listing holds exactly one snapshot for each job in
\* the registry and none for any other: the snapshot of a registered job
\* shows the fields of that job as they are.
SnapshotsArePureReads ==
    LET r == ApiDownloadsList(State)
        Of(id) == {p \in r.body : p.jobId = id}
    IN  /\ r.state = State
        /\ Cardinality(r.body) = Cardinality(DOMAIN activeDownloads)
        /\ \A p \in r.body : p.jobId \in DOMAIN activeDownloads
        /\ \A id \in DOMAIN activeDownloads :
               LET job == jobs[activeDownloads[id]]
               IN  /\ Cardinality(Of(id)) = 1
                   /\ \A p \in Of(id) :
                          /\ p.status = job.status
                          /\ p.bytesDownloaded = job.bytesDownloaded
                          /\ p.totalBytes = job.fileSize
                          /\ p.completedChunks = job.completedChunks
                          /\ p.totalChunks = Len(job.chunks)
                          /\ p.error = job.error

\* C32 witness: of two jobs created one was removed; the listing holds the
\* one snapshot of the other, which is in error with one chunk fetched.
OneListedOneRemoved ==
    /\ Len(jobs) = 2
    /\ Cardinality(DOMAIN activeDownloads) = 1
    /\ jobs[1].cancelCalled
    /\ jobs[1].jobId # jobs[2].jobId
    /\ Cardinality(getAllDownloads(State)) = 1
    /\ \A p \in getAllDownloads(State) :
           p.jobId = jobs[2].jobId /\ p.status = "error" /\ p.completedChunks = 1

\* C33: once a chunk's status is completed, no step changes it.
CompletedChunkStaysCompleted ==
    [][\A j \in DOMAIN jobs : \A k \in DOMAIN jobs[j].chunks :
          jobs[j].chunks[k].status = "completed"
              => jobs'[j].chunks[k].status = "completed"]_vars

\* C34: no chunk is dequeued twice: the queue holds each chunk at most once
\* and only chunks for which no fetch was started, and a fetch is started
\* only for a chunk that had none; so completedChunks never exceeds the
\* number of chunks (nor the number of fetches that returned) and
\* bytesDownloaded never exceeds fileSize.
QueueHoldsUnfetched ==
    \A j \in DOMAIN jobs :
        LET q == jobs[j].queue
        IN  /\ \A a, b \in DOMAIN q : a # b => q[a] # q[b]
            /\ \A a \in DOMAIN q : jobs[j].proc[q[a] + 1] = "none"
            /\ jobs[j].completedChunks
                   <= Cardinality({k \in DOMAIN jobs[j].proc : jobs[j].proc[k] = "done"})
            /\ jobs[j].completedChunks <= Len(jobs[j].chunks)
            /\ jobs[j].bytesDownloaded <= jobs[j].fileSize

FetchStartedOnce ==
    \A j \in DOMAIN jobs : \A k \in DOMAIN jobs[j].proc :
        /\ jobs[j].proc[k] # "none" => jobs'[j].proc[k] # "none"
        /\ jobs[j].proc[k] = "done" => jobs'[j].proc[k] = "done"
        /\ (jobs[j].proc[k] # "running" /\ jobs'[j].proc[k] = "running")
              => jobs[j].proc[k] = "none"

EachChunkFetchedOnce == []QueueHoldsUnfetched /\ [][FetchStartedOnce]_vars

\* C34 witness: the fetches of the five chunks of a job have all returned
\* after a cancel(), the fifth started by a worker that had fetched another
\* chunk before; every chunk is counted once and the counters are at their
\* limits.
AllFiveFetchedOnce ==
    \E j \in DOMAIN jobs :
        /\ Len(jobs[j].chunks) = 5
        /\ jobs[j].cancelCalled
        /\ \A k \in DOMAIN jobs[j].proc : jobs[j].proc[k] = "done"
        /\ jobs[j].completedChunks = 5
        /\ jobs[j].bytesDownloaded = jobs[j].fileSize
        /\ jobs[j].chain[5] = 1

\* C35: after cancel() on a job, once every fetch that was in flight has
\* returned, all workers have exited and start() has settled, none of the
\* job's chunk temporary files exists.
CancelLeavesNoOrphans ==
    \A j \in DOMAIN jobs :
        (jobs[j].cancelCalled /\ PoolDone(jobs[j]))
            => \A n \in ChunkFiles(jobs[j]) : files[n] = NoFile

\* C36: a job emits 'complete' at most once, and a job that has emitted
\* 'error' (one of its fetches failed: the catch block of processNext ran)
\* has not emitted 'complete'.
OutcomeEventsExclusive ==
    \A j \in DOMAIN jobs :
        /\ Len(jobs[j].completeEmitted) <= 1
        /\ ~(Failed(jobs[j]) /\ jobs[j].completeEmitted # <<>>)

\* the responses of a job whose client has not disconnected
Connected(job) == {k \in DOMAIN job.streams : ~job.streams[k].closed}

\* C37: after the 'close' of its request a response is left alone: no
\* listener writes to it or ends it, and no listener of it remains on the
\* job (the job has no more 'error' listeners than connected responses).
DetachedGetsNothing ==
    [][\A j \in DOMAIN jobs :
          /\ \A k \in DOMAIN jobs[j].streams :
                 jobs[j].streams[k].closed
                     => jobs'[j].streams[k] = jobs[j].streams[k]
          /\ jobs'[j].errorListeners <= Cardinality(Connected(jobs'[j]))]_vars

====
